---- MODULE Spec2Model ----
(***************************************************************************)
(* Model of modulus/experimental/sfno/perf_tests/afno/block.py: the AFNO   *)
(* Block micro-benchmark.  One host thread runs the module top level       *)
(* (library load, argument parsing) and then main(): parameters, model     *)
(* construction, 10 warm-up iterations, memory accounting reset, 10 timed  *)
(* iterations, optional barrier, report.  Each statement of the script is  *)
(* one action; pc is the statement about to run.                           *)
(***************************************************************************)
EXTENDS Integers, Sequences, FiniteSets, TLC

VARIABLES
    pc,         \* statement about to run, "done" or "failed"
    argv,       \* the command line the process was started with
    env,        \* what the process finds around it (library, process group)
    args,       \* the parsed Namespace; None before parse_args
    H, W,       \* the derived spatial grid (lines 56-57)
    model_loc,  \* the nn.Sequential: stages, scripted flag; None before line 74
    inp_loc,    \* the input tensor, None before line 82
    out_loc,    \* last forward output
    l_loc,      \* last scalar loss
    grads,      \* number of backward passes accumulated in the parameters' .grad
    i,          \* warm-up loop index (the "_" of line 85)
    step,       \* timed loop index (line 102)
    peak,       \* allocator peak statistics: passes run since the last reset
    max_mem_gb, \* last value read from max_memory_allocated
    start, end, \* perf_counter_ns readings
    cudaRet,    \* status codes returned by the native profiler entry points
    stdout,     \* lines printed
    exitCode,   \* <<status>> once the process has exited, <<>> while it runs
    failedAt,   \* the statement that raised, "None" otherwise
    trace       \* history: the operations performed so far, in order

vars == <<pc, argv, env, args, H, W, model_loc, inp_loc, out_loc, l_loc, grads,
          i, step, peak, max_mem_gb, start, end, cudaRet, stdout, exitCode,
          failedAt, trace>>

(* An unbound name holds None; a bound one holds Some(value). *)
None == <<>>
Some(v) == <<v>>
Val(o) == o[1]

(* Bounds of the command lines explored. *)
MaxLayers == 2
MaxHeight == 2
MaxWidth == 2
MaxPatch == 2

(* Program constants. *)
num_warmup == 10
num_steps == 10
BatchSizeDefault == 1
EmbedDimDefault == 1024

LayerValues == (-1)..MaxLayers
HeightValues == (-1)..MaxHeight
WidthValues == 0..MaxWidth
PatchValues == (-1)..MaxPatch

(* Division truncating toward zero, as C's / does. *)
FloorDiv_Truncating(a, b) ==
    LET abs(x) == IF x < 0 THEN 0 - x ELSE x
        q == abs(a) \div abs(b)
    IN IF (a < 0) = (b < 0) THEN q ELSE 0 - q

(* Python's // on ints: floor division; the caller handles b = 0. *)
FloorDiv(a, b) == IF b > 0 THEN a \div b ELSE (0 - a) \div (0 - b)

(* A command line: the nine options of lines 122-130 and whether every     *)
(* token is acceptable to argparse (known option, int-coercible value).    *)
CommandLines ==
    [ wellformed : BOOLEAN,
      batch_size : {BatchSizeDefault},
      num_layers : LayerValues,
      patch_size : PatchValues,
      embed_dim : {EmbedDimDefault},
      height : HeightValues,
      width : WidthValues,
      enable_amp : BOOLEAN,
      enable_jit : BOOLEAN,
      enable_profiling : BOOLEAN ]

Environments ==
    [ libLoadable : BOOLEAN,       \* libcudart.so can be loaded
      distInitialized : BOOLEAN ]  \* dist.is_initialized()

Event(op, phase, k) == [op |-> op, phase |-> phase, k |-> k]

Init ==
    /\ pc = "load"
    /\ argv \in CommandLines
    /\ env \in Environments
    /\ args = None
    /\ H = None
    /\ W = None
    /\ model_loc = None
    /\ inp_loc = None
    /\ out_loc = None
    /\ l_loc = None
    /\ grads = 0
    /\ i = 0
    /\ step = 0
    /\ peak = [warmup |-> 0, timed |-> 0]
    /\ max_mem_gb = None
    /\ start = None
    /\ end = None
    /\ cudaRet = [start |-> "None", stop |-> "None"]
    /\ stdout = <<>>
    /\ exitCode = <<>>
    /\ failedAt = "None"
    /\ trace = <<>>

(* The frame of a statement that only moves on and logs itself. *)
Data == <<argv, env, args, H, W, model_loc, inp_loc, out_loc, l_loc, grads,
          i, step, peak, max_mem_gb, start, end, cudaRet, stdout>>

Running == <<exitCode, failedAt>>

Log(op, phase, k) == trace' = Append(trace, Event(op, phase, k))

(* An exception swallowed at the top level: the process exits with 0. *)
Abort_ExitZero(code) ==
    /\ pc' = "failed"
    /\ exitCode' = <<0>>
    /\ failedAt' = pc
    /\ Log("raise", pc, -1)
    /\ UNCHANGED Data

(* An exception leaves the statement at pc: nothing in the script catches  *)
(* it, the interpreter prints a traceback and exits with the given status. *)
Abort(code) ==
    /\ pc' = "failed"
    /\ exitCode' = <<code>>
    /\ failedAt' = pc
    /\ Log("raise", pc, -1)
    /\ UNCHANGED Data

(* Statements at which the runtime can raise for reasons outside the       *)
(* script: device unavailable, out of memory, compilation error, a failed  *)
(* collective, a symbol missing from the native library.                   *)
RaisingPcs ==
    { "device", "build", "jit", "alloc",
      "w_normal", "w_zero_grad", "w_forward", "w_mean", "w_backward",
      "scaffold_query", "empty_cache", "reset_peak", "prof_start", "nvtx_enter",
      "range_push", "t_zero_grad", "t_forward", "t_mean", "t_backward",
      "range_pop", "barrier", "nvtx_exit", "prof_stop", "query_mem" }

Raise ==
    /\ pc \in RaisingPcs
    /\ Abort(1)

(* ---------------- module top level ---------------- *)

(* A load deferred to the first profiler call never fails here. *)
LibraryLoads_Deferred(e) == TRUE

(* line 36: cdll.LoadLibrary('libcudart.so'), run at import, before        *)
(* anything else and whatever the flags; OSError when it cannot be loaded. *)
LibraryLoads(e) == e.libLoadable

LoadLibrary ==
    /\ pc = "load"
    /\ IF LibraryLoads(env)
       THEN /\ pc' = "parse"
            /\ Log("load_library", "setup", -1)
            /\ UNCHANGED <<Data, Running>>
       ELSE Abort(1)

(* lines 121-131: argparse; a malformed command line prints usage to       *)
(* stderr and exits with status 2.                                         *)
Namespace(cl) ==
    [ batch_size |-> cl.batch_size, num_layers |-> cl.num_layers,
      patch_size |-> cl.patch_size, embed_dim |-> cl.embed_dim,
      height |-> cl.height, width |-> cl.width,
      enable_amp |-> cl.enable_amp, enable_jit |-> cl.enable_jit,
      enable_profiling |-> cl.enable_profiling ]

ParseArgs ==
    /\ pc = "parse"
    /\ IF argv.wellformed
       THEN /\ args' = Some(Namespace(argv))
            /\ pc' = "params"
            /\ Log("parse_args", "setup", -1)
            /\ UNCHANGED <<argv, env, H, W, model_loc, inp_loc, out_loc, l_loc,
                           grads, i, step, peak, max_mem_gb, start, end, cudaRet,
                           stdout, Running>>
       ELSE Abort(2)

(* ---------------- main: setup ---------------- *)

(* lines 49-57: H and W by integer division; ZeroDivisionError when        *)
(* patch_size is 0.                                                        *)
Parameters ==
    /\ pc = "params"
    /\ IF Val(args).patch_size = 0
       THEN Abort(1)
       ELSE /\ H' = Some(FloorDiv(Val(args).height, Val(args).patch_size))
            /\ W' = Some(FloorDiv(Val(args).width, Val(args).patch_size))
            /\ pc' = "device"
            /\ Log("parameters", "setup", -1)
            /\ UNCHANGED <<argv, env, args, model_loc, inp_loc, out_loc, l_loc,
                           grads, i, step, peak, max_mem_gb, start, end, cudaRet,
                           stdout, Running>>

(* lines 60-71: device selection, seed, cudnn tuning, GradScaler. *)
SetDevice ==
    /\ pc = "device"
    /\ pc' = "build"
    /\ Log("set_device", "setup", -1)
    /\ UNCHANGED <<Data, Running>>

(* Block.__init__ (networks/afnonet_v2.py): accepts a grid of at least one *)
(* row and one column.                                                     *)
BlockAccepts(h, w) == h >= 1 /\ w >= 1

Block(h, w, dim) == [h |-> h, w |-> w, dim |-> dim]

(* lines 74-76: nn.Sequential of num_layers Blocks; range(n) is empty for  *)
(* n <= 0, and then no Block is constructed.                               *)
StageCount(n) == IF n > 0 THEN n ELSE 0

BuildModel ==
    /\ pc = "build"
    /\ IF StageCount(Val(args).num_layers) > 0 /\ ~BlockAccepts(Val(H), Val(W))
       THEN Abort(1)
       ELSE /\ model_loc' =
                 Some([ stages |-> [n \in 1..StageCount(Val(args).num_layers) |->
                                       Block(Val(H), Val(W), Val(args).embed_dim)],
                        scripted |-> FALSE ])
            /\ pc' = "jit"
            /\ Log("build_model", "setup", -1)
            /\ UNCHANGED <<argv, env, args, H, W, inp_loc, out_loc, l_loc,
                           grads, i, step, peak, max_mem_gb, start, end, cudaRet,
                           stdout, Running>>

(* lines 78-79 *)
JitScript ==
    /\ pc = "jit"
    /\ model_loc' = Some([Val(model_loc) EXCEPT !.scripted = Val(args).enable_jit])
    /\ pc' = "alloc"
    /\ Log("jit", "setup", -1)
    /\ UNCHANGED <<argv, env, args, H, W, inp_loc, out_loc, l_loc,
                   grads, i, step, peak, max_mem_gb, start, end, cudaRet,
                   stdout, Running>>

(* line 82: torch.empty: uninitialised contents (gen 0), no gradient       *)
(* tracking; RuntimeError on a negative dimension.                         *)
Empty(shape) ==
    [shape |-> shape, gen |-> 0, depth |-> 0, requires_grad |-> FALSE]

AllocInput ==
    /\ pc = "alloc"
    /\ IF Val(H) < 0 \/ Val(W) < 0 \/ Val(args).batch_size < 0 \/ Val(args).embed_dim < 0
       THEN Abort(1)
       ELSE /\ inp_loc' = Some(Empty(<<Val(args).batch_size, Val(args).embed_dim, Val(H), Val(W)>>))
            /\ pc' = "w_loop"
            /\ Log("alloc_input", "setup", -1)
            /\ UNCHANGED <<argv, env, args, H, W, model_loc, out_loc, l_loc,
                           grads, i, step, peak, max_mem_gb, start, end, cudaRet,
                           stdout, Running>>

(* ---------------- the forward/backward computation ---------------- *)

(* line 86: inp_loc.normal_(): fresh contents, in place. *)
Normal(t) == [t EXCEPT !.gen = @ + 1]

(* Gradients left in place. *)
ZeroGrad_Keeps(g) == g

(* lines 87, 104: zero_grad(set_to_none=True) drops every .grad. *)
ZeroGrad(g) == 0

(* Block.forward (networks/afnonet_v2.py): shape preserving; the result    *)
(* depends on the block's learnable parameters, so it tracks gradients.    *)
BlockForward(b, x) ==
    [x EXCEPT !.depth = @ + 1, !.requires_grad = TRUE]

(* lines 89, 106: nn.Sequential.forward threads the input through the      *)
(* stages in order; with no stage it returns its argument.                 *)
RECURSIVE SequentialForward(_, _)
SequentialForward(stages, x) ==
    IF stages = <<>> THEN x
    ELSE SequentialForward(Tail(stages), BlockForward(Head(stages), x))

(* lines 90, 107: torch.mean: a scalar that tracks gradients iff its       *)
(* argument does.                                                          *)
Mean(t) == [of |-> t, requires_grad |-> t.requires_grad]

(* lines 91, 108: GradScaler.scale multiplies by the loss scale when       *)
(* enabled and keeps the autograd graph.                                   *)
Scale(l, enabled) ==
    [of |-> l.of, requires_grad |-> l.requires_grad, scaled |-> enabled]

(* Tensor.backward raises RuntimeError on a tensor without grad_fn. *)
CanBackward(l) == l.requires_grad

(* ---------------- main: warm-up loop, lines 85-91 ---------------- *)

WarmupLoop ==
    /\ pc = "w_loop"
    /\ pc' = IF i < num_warmup THEN "w_normal" ELSE "scaffold_query"
    /\ trace' = trace
    /\ UNCHANGED <<Data, Running>>

WarmupNormal ==
    /\ pc = "w_normal"
    /\ inp_loc' = Some(Normal(Val(inp_loc)))
    /\ pc' = "w_zero_grad"
    /\ Log("normal_", "warmup", i)
    /\ UNCHANGED <<argv, env, args, H, W, model_loc, out_loc, l_loc,
                   grads, i, step, peak, max_mem_gb, start, end, cudaRet,
                   stdout, Running>>

WarmupZeroGrad ==
    /\ pc = "w_zero_grad"
    /\ grads' = ZeroGrad(grads)
    /\ pc' = "w_forward"
    /\ Log("zero_grad", "warmup", i)
    /\ UNCHANGED <<argv, env, args, H, W, model_loc, inp_loc, out_loc, l_loc,
                   i, step, peak, max_mem_gb, start, end, cudaRet,
                   stdout, Running>>

WarmupForward ==
    /\ pc = "w_forward"
    /\ out_loc' = Some(SequentialForward(Val(model_loc).stages, Val(inp_loc)))
    /\ peak' = [peak EXCEPT !.warmup = @ + 1]
    /\ pc' = "w_mean"
    /\ Log("forward", "warmup", i)
    /\ UNCHANGED <<argv, env, args, H, W, model_loc, inp_loc, l_loc,
                   grads, i, step, max_mem_gb, start, end, cudaRet,
                   stdout, Running>>

WarmupMean ==
    /\ pc = "w_mean"
    /\ l_loc' = Some(Mean(Val(out_loc)))
    /\ pc' = "w_backward"
    /\ Log("mean", "warmup", i)
    /\ UNCHANGED <<argv, env, args, H, W, model_loc, inp_loc, out_loc,
                   grads, i, step, peak, max_mem_gb, start, end, cudaRet,
                   stdout, Running>>

WarmupBackward ==
    /\ pc = "w_backward"
    /\ IF CanBackward(Scale(Val(l_loc), Val(args).enable_amp))
       THEN /\ grads' = grads + 1
            /\ peak' = [peak EXCEPT !.warmup = @ + 1]
            /\ i' = i + 1
            /\ pc' = "w_loop"
            /\ Log("backward", "warmup", i)
            /\ UNCHANGED <<argv, env, args, H, W, model_loc, inp_loc, out_loc,
                           l_loc, step, max_mem_gb, start, end, cudaRet,
                           stdout, Running>>
       ELSE Abort(1)

(* ---------------- main: between the loops, lines 94-101 ---------------- *)

(* lines 94, 117: torch.cuda.max_memory_allocated: the peak since the last *)
(* reset.                                                                  *)
MaxMemoryAllocated(p) == p

(* Statistics left as they are. *)
ResetPeakMemoryStats_Keeps(p) == p

(* line 97: torch.cuda.reset_peak_memory_stats *)
ResetPeakMemoryStats(p) == [warmup |-> 0, timed |-> 0]

ScaffoldQuery ==
    /\ pc = "scaffold_query"
    /\ max_mem_gb' = Some(MaxMemoryAllocated(peak))
    /\ pc' = "scaffold_print"
    /\ Log("max_memory_allocated", "scaffold", -1)
    /\ UNCHANGED <<argv, env, args, H, W, model_loc, inp_loc, out_loc, l_loc,
                   grads, i, step, peak, start, end, cudaRet, stdout, Running>>

(* line 95 *)
ScaffoldLine(m) ==
    [text |-> "Memory high watermark during scaffolding", value |-> m]

ScaffoldPrint ==
    /\ pc = "scaffold_print"
    /\ stdout' = Append(stdout, ScaffoldLine(Val(max_mem_gb)))
    /\ pc' = "empty_cache"
    /\ Log("print_scaffold", "scaffold", -1)
    /\ UNCHANGED <<argv, env, args, H, W, model_loc, inp_loc, out_loc, l_loc,
                   grads, i, step, peak, max_mem_gb, start, end, cudaRet,
                   Running>>

(* line 96 *)
EmptyCache ==
    /\ pc = "empty_cache"
    /\ pc' = "reset_peak"
    /\ Log("empty_cache", "scaffold", -1)
    /\ UNCHANGED <<Data, Running>>

ResetPeak ==
    /\ pc = "reset_peak"
    /\ peak' = ResetPeakMemoryStats(peak)
    /\ pc' = "prof_start"
    /\ Log("reset_peak_memory_stats", "scaffold", -1)
    /\ UNCHANGED <<argv, env, args, H, W, model_loc, inp_loc, out_loc, l_loc,
                   grads, i, step, max_mem_gb, start, end, cudaRet, stdout,
                   Running>>

(* The enabled argument ignored. *)
ProfilerCalled_Always(enabled) == TRUE

(* lines 38-44: the native entry point is called iff enabled; its          *)
(* cudaError_t return value is dropped by the caller.                      *)
ProfilerCalled(enabled) == enabled

CudaStatus == {"cudaSuccess", "cudaError"}

ProfilerStart ==
    /\ pc = "prof_start"
    /\ IF ProfilerCalled(Val(args).enable_profiling)
       THEN \E r \in CudaStatus :
               /\ cudaRet' = [cudaRet EXCEPT !.start = r]
               /\ Log("cudaProfilerStart", "timed", -1)
       ELSE /\ cudaRet' = cudaRet
            /\ trace' = trace
    /\ pc' = "nvtx_enter"
    /\ UNCHANGED <<argv, env, args, H, W, model_loc, inp_loc, out_loc, l_loc,
                   grads, i, step, peak, max_mem_gb, start, end, stdout,
                   Running>>

(* line 100: entering the emit_nvtx context *)
NvtxEnter ==
    /\ pc = "nvtx_enter"
    /\ pc' = "start_clock"
    /\ Log("emit_nvtx_enter", "timed", -1)
    /\ UNCHANGED <<Data, Running>>

(* lines 101, 112: time.perf_counter_ns, a monotonic clock; the reading is *)
(* the number of operations performed so far.                              *)
PerfCounter == Len(trace)

StartClock ==
    /\ pc = "start_clock"
    /\ start' = Some(PerfCounter)
    /\ pc' = "t_loop"
    /\ Log("perf_counter_start", "timed", -1)
    /\ UNCHANGED <<argv, env, args, H, W, model_loc, inp_loc, out_loc, l_loc,
                   grads, i, step, peak, max_mem_gb, end, cudaRet, stdout,
                   Running>>

(* ---------------- main: timed loop, lines 102-112 ---------------- *)

TimedLoop ==
    /\ pc = "t_loop"
    /\ pc' = IF step < num_steps THEN "range_push" ELSE "dist_check"
    /\ trace' = trace
    /\ UNCHANGED <<Data, Running>>

(* A timed loop body copied from the warm-up loop with its resampling. *)
RangePush_Resampling ==
    /\ pc = "range_push"
    /\ inp_loc' = Some([Val(inp_loc) EXCEPT !.gen = @ + 1])
    /\ pc' = "t_zero_grad"
    /\ Log("range_push", "timed", step)
    /\ UNCHANGED <<argv, env, args, H, W, model_loc, out_loc, l_loc,
                   grads, i, step, peak, max_mem_gb, start, end, cudaRet,
                   stdout, Running>>

(* line 103: called on every pass through the loop body, whatever          *)
(* Val(args).enable_profiling is.                                               *)
RangePush ==
    /\ pc = "range_push"
    /\ pc' = "t_zero_grad"
    /\ Log("range_push", "timed", step)
    /\ UNCHANGED <<Data, Running>>

TimedZeroGrad ==
    /\ pc = "t_zero_grad"
    /\ grads' = ZeroGrad(grads)
    /\ pc' = "t_forward"
    /\ Log("zero_grad", "timed", step)
    /\ UNCHANGED <<argv, env, args, H, W, model_loc, inp_loc, out_loc, l_loc,
                   i, step, peak, max_mem_gb, start, end, cudaRet,
                   stdout, Running>>

TimedForward ==
    /\ pc = "t_forward"
    /\ out_loc' = Some(SequentialForward(Val(model_loc).stages, Val(inp_loc)))
    /\ peak' = [peak EXCEPT !.timed = @ + 1]
    /\ pc' = "t_mean"
    /\ Log("forward", "timed", step)
    /\ UNCHANGED <<argv, env, args, H, W, model_loc, inp_loc, l_loc,
                   grads, i, step, max_mem_gb, start, end, cudaRet,
                   stdout, Running>>

TimedMean ==
    /\ pc = "t_mean"
    /\ l_loc' = Some(Mean(Val(out_loc)))
    /\ pc' = "t_backward"
    /\ Log("mean", "timed", step)
    /\ UNCHANGED <<argv, env, args, H, W, model_loc, inp_loc, out_loc,
                   grads, i, step, peak, max_mem_gb, start, end, cudaRet,
                   stdout, Running>>

TimedBackward ==
    /\ pc = "t_backward"
    /\ IF CanBackward(Scale(Val(l_loc), Val(args).enable_amp))
       THEN /\ grads' = grads + 1
            /\ peak' = [peak EXCEPT !.timed = @ + 1]
            /\ pc' = "range_pop"
            /\ Log("backward", "timed", step)
            /\ UNCHANGED <<argv, env, args, H, W, model_loc, inp_loc, out_loc,
                           l_loc, i, step, max_mem_gb, start, end, cudaRet,
                           stdout, Running>>
       ELSE Abort(1)

(* line 109, then the next value of step *)
RangePop ==
    /\ pc = "range_pop"
    /\ step' = step + 1
    /\ pc' = "t_loop"
    /\ Log("range_pop", "timed", step)
    /\ UNCHANGED <<argv, env, args, H, W, model_loc, inp_loc, out_loc, l_loc,
                   grads, i, peak, max_mem_gb, start, end, cudaRet, stdout,
                   Running>>

(* The barrier issued unconditionally. *)
IsInitialized_Always(e) == TRUE

(* line 110 *)
IsInitialized(e) == e.distInitialized

DistCheck ==
    /\ pc = "dist_check"
    /\ pc' = IF IsInitialized(env) THEN "barrier" ELSE "end_clock"
    /\ trace' = trace
    /\ UNCHANGED <<Data, Running>>

(* line 111 *)
Barrier ==
    /\ pc = "barrier"
    /\ pc' = "end_clock"
    /\ Log("barrier", "timed", -1)
    /\ UNCHANGED <<Data, Running>>

(* line 112 *)
EndClock ==
    /\ pc = "end_clock"
    /\ end' = Some(PerfCounter)
    /\ pc' = "nvtx_exit"
    /\ Log("perf_counter_end", "timed", -1)
    /\ UNCHANGED <<argv, env, args, H, W, model_loc, inp_loc, out_loc, l_loc,
                   grads, i, step, peak, max_mem_gb, start, cudaRet, stdout,
                   Running>>

(* leaving the with block of line 100 *)
NvtxExit ==
    /\ pc = "nvtx_exit"
    /\ pc' = "prof_stop"
    /\ Log("emit_nvtx_exit", "timed", -1)
    /\ UNCHANGED <<Data, Running>>

(* line 113 *)
ProfilerStop ==
    /\ pc = "prof_stop"
    /\ IF ProfilerCalled(Val(args).enable_profiling)
       THEN \E r \in CudaStatus :
               /\ cudaRet' = [cudaRet EXCEPT !.stop = r]
               /\ Log("cudaProfilerStop", "timed", -1)
       ELSE /\ cudaRet' = cudaRet
            /\ trace' = trace
    /\ pc' = "print_time"
    /\ UNCHANGED <<argv, env, args, H, W, model_loc, inp_loc, out_loc, l_loc,
                   grads, i, step, peak, max_mem_gb, start, end, stdout,
                   Running>>

(* ---------------- main: report, lines 116-118 ---------------- *)

(* The final line printed with the label of line 95. *)
PeakLine_Mislabelled(m) ==
    [text |-> "Memory high watermark during scaffolding", value |-> m]

TimeLine(s, e, n) ==
    [text |-> "Time per step local", value |-> [elapsed |-> e - s, steps |-> n]]

PeakLine(m) == [text |-> "Memory high watermark", value |-> m]

PrintTime ==
    /\ pc = "print_time"
    /\ stdout' = Append(stdout, TimeLine(Val(start), Val(end), num_steps))
    /\ pc' = "query_mem"
    /\ Log("print_time", "report", -1)
    /\ UNCHANGED <<argv, env, args, H, W, model_loc, inp_loc, out_loc, l_loc,
                   grads, i, step, peak, max_mem_gb, start, end, cudaRet,
                   Running>>

QueryMem ==
    /\ pc = "query_mem"
    /\ max_mem_gb' = Some(MaxMemoryAllocated(peak))
    /\ pc' = "print_mem"
    /\ Log("max_memory_allocated", "report", -1)
    /\ UNCHANGED <<argv, env, args, H, W, model_loc, inp_loc, out_loc, l_loc,
                   grads, i, step, peak, start, end, cudaRet, stdout, Running>>

PrintMem ==
    /\ pc = "print_mem"
    /\ stdout' = Append(stdout, PeakLine(Val(max_mem_gb)))
    /\ pc' = "exit"
    /\ Log("print_peak", "report", -1)
    /\ UNCHANGED <<argv, env, args, H, W, model_loc, inp_loc, out_loc, l_loc,
                   grads, i, step, peak, max_mem_gb, start, end, cudaRet,
                   Running>>

(* line 133: main returns and the interpreter exits with status 0. *)
Exit ==
    /\ pc = "exit"
    /\ pc' = "done"
    /\ exitCode' = <<0>>
    /\ Log("exit", "report", -1)
    /\ UNCHANGED <<Data, failedAt>>

Next ==
    \/ LoadLibrary \/ ParseArgs \/ Parameters \/ SetDevice \/ BuildModel
    \/ JitScript \/ AllocInput
    \/ WarmupLoop \/ WarmupNormal \/ WarmupZeroGrad \/ WarmupForward
    \/ WarmupMean \/ WarmupBackward
    \/ ScaffoldQuery \/ ScaffoldPrint \/ EmptyCache \/ ResetPeak
    \/ ProfilerStart \/ NvtxEnter \/ StartClock
    \/ TimedLoop \/ RangePush \/ TimedZeroGrad \/ TimedForward \/ TimedMean
    \/ TimedBackward \/ RangePop
    \/ DistCheck \/ Barrier \/ EndClock \/ NvtxExit \/ ProfilerStop
    \/ PrintTime \/ QueryMem \/ PrintMem \/ Exit
    \/ Raise

Spec == Init /\ [][Next]_vars

(* The host thread keeps running until the process exits. *)
FairSpec == Spec /\ WF_vars(Next)

TypeOK ==
    /\ pc \in {"done", "failed"} <=> exitCode # <<>>
    /\ pc = "failed" <=> failedAt # "None"
    /\ grads \in 0..1
    /\ i \in 0..num_warmup
    /\ step \in 0..num_steps

(* ---------------- reading the history ---------------- *)

Has(e) == \E n \in DOMAIN trace : trace[n] = e

Where(e) == {n \in DOMAIN trace : trace[n] = e}

WhereOp(op) == {n \in DOMAIN trace : trace[n].op = op}

(* every occurrence of a precedes every occurrence of b *)
Precedes(a, b) == \A m \in Where(a), n \in Where(b) : m < n

Once(e) == Cardinality(Where(e)) = 1

AtMostOnce(e) == Cardinality(Where(e)) <= 1

ResetEv == Event("reset_peak_memory_stats", "scaffold", -1)
FinalQueryEv == Event("max_memory_allocated", "report", -1)
BarrierEv == Event("barrier", "timed", -1)
StartClockEv == Event("perf_counter_start", "timed", -1)
EndClockEv == Event("perf_counter_end", "timed", -1)
ProfStartEv == Event("cudaProfilerStart", "timed", -1)
ProfStopEv == Event("cudaProfilerStop", "timed", -1)

(* C1: in every run that reaches the final report, peak-memory accounting  *)
(* is reset exactly once, after the backward pass of the 10th warm-up      *)
(* iteration and before the forward pass of the first timed iteration, no  *)
(* reset lies between it and the final query, and the figure read by that  *)
(* query counts the passes of the timed loop only.                         *)
C1_PeakCoversTimedLoopOnly ==
    Has(FinalQueryEv) =>
        /\ Cardinality(WhereOp("reset_peak_memory_stats")) = 1
        /\ Once(ResetEv)
        /\ Once(Event("backward", "warmup", 9))
        /\ Once(Event("forward", "timed", 0))
        /\ Precedes(Event("backward", "warmup", 9), ResetEv)
        /\ Precedes(ResetEv, Event("forward", "timed", 0))
        /\ Precedes(ResetEv, FinalQueryEv)
        /\ max_mem_gb = Some([warmup |-> 0, timed |-> 20])

C1_Witness ==
    /\ pc = "done"
    /\ Has(ResetEv)
    /\ stdout[Len(stdout)] = PeakLine([warmup |-> 0, timed |-> 20])

(* C2: a barrier is issued only when a process group is initialized, at    *)
(* most once, after the 10th timed iteration has finished and before the   *)
(* end timestamp is read; with a group initialized the end timestamp is    *)
(* never read without that one barrier before it.                          *)
C2_OneBarrierAfterTimedLoop ==
    /\ Cardinality(WhereOp("barrier")) <= 1
    /\ ~env.distInitialized => WhereOp("barrier") = {}
    /\ Has(BarrierEv) =>
          /\ Once(Event("range_pop", "timed", 9))
          /\ Precedes(Event("range_pop", "timed", 9), BarrierEv)
          /\ Precedes(BarrierEv, EndClockEv)
          /\ \A n \in DOMAIN trace :
                trace[n].phase = "warmup" => n < CHOOSE b \in Where(BarrierEv) : TRUE
    /\ (Has(EndClockEv) /\ env.distInitialized) => Once(BarrierEv)

C2_Witness ==
    /\ pc = "done"
    /\ env.distInitialized
    /\ Once(BarrierEv)

C2_WitnessNoGroup ==
    /\ pc = "done"
    /\ ~env.distInitialized
    /\ ~Has(BarrierEv)

(* Where the samplings lie in the history, and which sampling a timed      *)
(* forward pass reads.                                                     *)
C3_Sampling ==
    /\ \A n \in WhereOp("normal_") : trace[n].phase = "warmup"
    /\ \A k \in 0..9 :
          /\ AtMostOnce(Event("normal_", "warmup", k))
          /\ Has(Event("forward", "warmup", k)) =>
                /\ Once(Event("normal_", "warmup", k))
                /\ Precedes(Event("normal_", "warmup", k),
                            Event("forward", "warmup", k))
                /\ k > 0 => Precedes(Event("backward", "warmup", k - 1),
                                     Event("normal_", "warmup", k))
    /\ pc \in {"t_forward", "t_mean"} => Val(inp_loc).gen = 10
    /\ pc = "t_mean" => Val(out_loc).gen = 10
    /\ pc = "done" => Val(inp_loc).gen = 10

(* C3: the input tensor is resampled exactly once at the start of each     *)
(* warm-up iteration, before that iteration's forward pass and after the   *)
(* previous iteration's backward pass, and nowhere else; once the warm-up  *)
(* loop has ended the tensor is never written again, so every timed        *)
(* forward pass reads the contents of the 10th sampling.                   *)
C3_InputFixedInTimedLoop ==
    /\ []C3_Sampling
    /\ [][i = 10 => inp_loc' = inp_loc]_vars

C3_Witness ==
    /\ pc = "t_mean"
    /\ step = 9
    /\ Val(out_loc).gen = 10
    /\ Cardinality(WhereOp("normal_")) = 10

TimeText == "Time per step local"
PeakText == "Memory high watermark"
ScaffoldText == "Memory high watermark during scaffolding"

Texts == [n \in DOMAIN stdout |-> stdout[n].text]

IsPrefix(s, t) == Len(s) <= Len(t) /\ \A n \in DOMAIN s : s[n] = t[n]

(* C4 as stated: standard output only ever holds the time per step line    *)
(* followed by the peak memory line, and a completed run holds exactly     *)
(* these two.                                                              *)
C4_TwoLinesOnly ==
    /\ IsPrefix(Texts, <<TimeText, PeakText>>)
    /\ pc = "done" => Texts = <<TimeText, PeakText>>

(* C4 amended: standard output only ever holds, in this order, the         *)
(* scaffolding memory line (written between the warm-up loop and the       *)
(* memory reset), the time per step line and the peak memory line; a       *)
(* completed run holds exactly these three.                                *)
C4_ThreeLines ==
    /\ IsPrefix(Texts, <<ScaffoldText, TimeText, PeakText>>)
    /\ pc = "done" => Texts = <<ScaffoldText, TimeText, PeakText>>
    /\ Len(stdout) >= 1 =>
          /\ Precedes(Event("backward", "warmup", 9),
                      Event("print_scaffold", "scaffold", -1))
          /\ Precedes(Event("print_scaffold", "scaffold", -1), ResetEv)
          /\ Has(Event("backward", "warmup", 9))
    /\ Len(stdout) >= 2 => Has(EndClockEv)

C4_Witness ==
    /\ pc = "done"
    /\ Len(stdout) = 3
    /\ stdout[1].text = ScaffoldText

(* Statements that run after the print of line 95. *)
AfterScaffoldPrint ==
    { "empty_cache", "reset_peak", "prof_start", "nvtx_enter", "start_clock",
      "t_loop", "range_push", "t_zero_grad", "t_forward", "t_mean",
      "t_backward", "range_pop", "dist_check", "barrier", "end_clock",
      "nvtx_exit", "prof_stop", "print_time", "query_mem", "print_mem", "exit" }

ProfilerReportedError ==
    cudaRet.start = "cudaError" \/ cudaRet.stop = "cudaError"

C5_FailedState ==
    /\ pc = "failed" =>
          /\ exitCode \in {<<1>>, <<2>>}
          /\ trace[Len(trace)] = Event("raise", failedAt, -1)
          /\ Cardinality(WhereOp("raise")) = 1
          /\ Texts = IF failedAt = "query_mem" THEN <<ScaffoldText, TimeText>>
                     ELSE IF failedAt \in AfterScaffoldPrint THEN <<ScaffoldText>>
                     ELSE <<>>
    /\ pc # "failed" => WhereOp("raise") = {}
    /\ exitCode = <<0>> => pc = "done"
    /\ \A n \in DOMAIN trace : n < Len(trace) => trace[n] # trace[Len(trace)]

PushEv(k) == Event("range_push", "timed", k)
PopEv(k) == Event("range_pop", "timed", k)

(* C6 as stated: without --enable_profiling the run issues no profiler     *)
(* start, no profiler stop and no range push or pop.                       *)
C6_FlagGatesMarkers ==
    ~argv.enable_profiling =>
        /\ WhereOp("cudaProfilerStart") = {}
        /\ WhereOp("cudaProfilerStop") = {}
        /\ WhereOp("range_push") = {}
        /\ WhereOp("range_pop") = {}

(* C6 amended: --enable_profiling gates the profiler start and stop calls  *)
(* only: unset, neither is issued; set, exactly one start is issued before *)
(* the first timed iteration and exactly one stop after the end timestamp  *)
(* is read.  The push 'step k' / pop pair is issued around each timed      *)
(* iteration k in 0..9 in every run, whatever the flag.                    *)
C6_FlagGatesProfilerOnly ==
    /\ ~argv.enable_profiling =>
          (WhereOp("cudaProfilerStart") = {} /\ WhereOp("cudaProfilerStop") = {})
    /\ Cardinality(WhereOp("cudaProfilerStart")) <= 1
    /\ Cardinality(WhereOp("cudaProfilerStop")) <= 1
    /\ Precedes(ProfStartEv, PushEv(0))
    /\ (argv.enable_profiling /\ Has(PushEv(0))) => Once(ProfStartEv)
    /\ Has(ProfStopEv) => (Has(EndClockEv) /\ Precedes(EndClockEv, ProfStopEv))
    /\ (argv.enable_profiling /\ Has(Event("print_time", "report", -1)))
          => Once(ProfStopEv)
    /\ \A n \in WhereOp("range_push") \cup WhereOp("range_pop") :
          trace[n].phase = "timed" /\ trace[n].k \in 0..9
    /\ \A k \in 0..9 :
          /\ AtMostOnce(PushEv(k))
          /\ AtMostOnce(PopEv(k))
          /\ Has(Event("zero_grad", "timed", k)) =>
                (Once(PushEv(k)) /\ Precedes(PushEv(k), Event("zero_grad", "timed", k)))
          /\ Has(PopEv(k)) =>
                /\ Has(Event("backward", "timed", k))
                /\ Precedes(Event("backward", "timed", k), PopEv(k))
          /\ (k < 9 /\ Has(PushEv(k + 1))) =>
                (Has(PopEv(k)) /\ Precedes(PopEv(k), PushEv(k + 1)))
          /\ Has(EndClockEv) => (Once(PushEv(k)) /\ Once(PopEv(k)))

C6_Witness ==
    /\ pc = "done"
    /\ ~argv.enable_profiling
    /\ Cardinality(WhereOp("range_push")) = 10
    /\ Cardinality(WhereOp("range_pop")) = 10
    /\ ~Has(ProfStartEv)

C6_WitnessFlagSet ==
    /\ pc = "done"
    /\ argv.enable_profiling
    /\ Once(ProfStartEv)
    /\ Once(ProfStopEv)

(* C7: with --enable_profiling on the command line and libcudart.so not    *)
(* loadable, the process fails at the library load: nothing has been       *)
(* parsed, built, iterated or printed, and no later statement is reached.  *)
C7_FailsAtLibraryLoad ==
    (argv.enable_profiling /\ ~env.libLoadable) =>
        /\ pc \in {"load", "failed"}
        /\ pc = "failed" => (failedAt = "load" /\ exitCode = <<1>>)
        /\ \A n \in DOMAIN trace : trace[n] = Event("raise", "load", -1)
        /\ stdout = <<>>
        /\ i = 0 /\ step = 0

C7_Witness ==
    /\ argv.enable_profiling
    /\ ~env.libLoadable
    /\ pc = "failed"
    /\ failedAt = "load"

ParamsEv == Event("parameters", "setup", -1)
BuildEv == Event("build_model", "setup", -1)
AllocEv == Event("alloc_input", "setup", -1)

(* C8 as stated: with --num_layers 0 the model is an empty sequence, the   *)
(* forward output equals the input in every iteration, and every backward  *)
(* pass of the warm-up and timed loops goes through.                       *)
C8_ZeroLayersRuns ==
    argv.num_layers = 0 =>
        /\ Has(BuildEv) => Val(model_loc).stages = <<>>
        /\ pc \in {"w_mean", "t_mean"} => out_loc = inp_loc
        /\ pc \in {"w_backward", "t_backward"} =>
              CanBackward(Scale(Val(l_loc), Val(args).enable_amp))

(* What the code does instead: no run with --num_layers 0 gets past the    *)
(* backward pass of the first warm-up iteration.                           *)
C8_ZeroLayersStopAtFirstBackward ==
    argv.num_layers = 0 =>
        /\ i = 0 /\ step = 0 /\ stdout = <<>>
        /\ pc # "done"
        /\ ~Has(Event("backward", "warmup", 0))

C8_ReachesFirstBackward ==
    /\ argv.num_layers = 0
    /\ pc = "failed"
    /\ failedAt = "w_backward"
    /\ out_loc = inp_loc

(* a = b * q + r with r between 0 and b: q is the floor of a / b *)
IsFloorQuotient(q, a, b) ==
    IF b > 0 THEN b * q <= a /\ a < b * q + b
    ELSE b * q >= a /\ a > b * q + b

C9_WitnessNoStage ==
    /\ Has(BuildEv)
    /\ argv.num_layers = -1
    /\ Val(H) < 1

C9_WitnessBuilt ==
    /\ Has(BuildEv)
    /\ Len(Val(model_loc).stages) = 2
    /\ H = Some(2) /\ W = Some(1)

IterOps == <<"zero_grad", "forward", "mean", "backward">>

Iterations == SelectSeq(trace, LAMBDA e : e.op \in {IterOps[j] : j \in 1..4})

(* 10 warm-up iterations, then 10 timed ones, four operations each *)
Expected ==
    [n \in 1..80 |->
        Event(IterOps[((n - 1) % 4) + 1],
              IF (n - 1) \div 4 < 10 THEN "warmup" ELSE "timed",
              ((n - 1) \div 4) % 10)]

(* The iterations performed so far against the expected ones. *)
C10_Iterations ==
    /\ IsPrefix(Iterations, Expected)
    /\ grads \in {0, 1}
    /\ pc \in {"w_forward", "w_mean", "w_backward",
               "t_forward", "t_mean", "t_backward"} => grads = 0
    /\ pc = "done" =>
          /\ Iterations = Expected
          /\ exitCode = <<0>>
          /\ i = 10 /\ step = 10
          /\ Once(StartClockEv)
          /\ Precedes(Event("backward", "warmup", 9), StartClockEv)
          /\ Precedes(StartClockEv, PushEv(0))
          /\ Precedes(StartClockEv, Event("zero_grad", "timed", 0))

(* C10: the iterations of any run are a prefix of 10 warm-up iterations    *)
(* followed by 10 timed iterations, each one zero_grad, forward, mean,     *)
(* backward in this order; the gradients hold at most one backward pass    *)
(* and none when a backward pass starts; a completed run has performed all *)
(* 20, read the start timestamp between the last warm-up iteration and the *)
(* first timed one, and exited with status 0; every run ends, completed or *)
(* failed.                                                                 *)
C10_TwentyIterations ==
    /\ []C10_Iterations
    /\ <>(pc \in {"done", "failed"})

C10_Witness ==
    /\ pc = "done"
    /\ Len(Iterations) = 80
    /\ exitCode = <<0>>
    /\ argv.num_layers = 2

====
